---- MODULE Spec2Model ----
(***************************************************************************)
(* The forward computation of transformer.ipynb: PositionalEncoding,       *)
(* MultiHeadAttention, FeedForward, EncoderLayer, DecoderLayer and the     *)
(* Transformer assembly.                                                   *)
(*                                                                         *)
(* A tensor is modelled by its shape (a sequence of dimension sizes).  The *)
(* attention probabilities are modelled by value for one query row of one  *)
(* (batch, head) slice: softmax(dim=-1) treats every query row on its own, *)
(* and the row is chosen freely in each call.  Scores are integers and     *)
(* probabilities fixed-point numbers, see Exp and softmax.                 *)
(*                                                                         *)
(* A call either returns or raises: every operator that models a call      *)
(* yields a record whose err field is "ok" or the name of the exception.   *)
(***************************************************************************)
EXTENDS Integers, Sequences, FiniteSets, TLC

VARIABLES
    self,   \* the module instance that was constructed (cls = "None": none)
    ret     \* the last call: its arguments and what it returned or raised

vars == <<self, ret>>

----------------------------------------------------------------------------
(* Bounds of the model and the sets the arguments are drawn from.          *)

MaxLen == 2          \* sequence lengths are 1..MaxLen
MaxLayers == 2       \* a Transformer has 0..MaxLayers layers in each stack

Lens == 1..MaxLen
Batches == {1, 2}
DModels == {2, 3, 4}
Heads == {1, 2, 3}
LayerDModels == {2, 4}
LayerHeads == {1, 2}
Vocabs == {3, 5}
BigScore == 10 ^ 6   \* a score of large magnitude
ScoreVals == {-1, 0, BigScore}

----------------------------------------------------------------------------
(* Statements in sequence.                                                 *)

\* body at the value of v, v being evaluated once: `x = v; body(x)`
Bind(v, body(_)) == CHOOSE r \in {body(x) : x \in {v}} : TRUE

Ok(shape) == [err |-> "ok", shape |-> shape]
Raise(e) == [err |-> e, shape |-> <<>>]

\* `x = r; body(x)` where evaluating r may raise: the exception propagates.
Try(r, body(_)) == Bind(r, LAMBDA x : IF x.err # "ok" THEN Raise(x.err) ELSE body(x))

----------------------------------------------------------------------------
(* Shapes and the tensor operations of torch the notebook uses.            *)

Max(a, b) == IF a >= b THEN a ELSE b
Min(a, b) == IF a <= b THEN a ELSE b

RECURSIVE Numel(_)
Numel(s) == IF s = <<>> THEN 1 ELSE Head(s) * Numel(Tail(s))

\* Dimension i of shape s aligned to rank n: torch prepends dimensions of size 1.
Dim(s, n, i) == IF i <= n - Len(s) THEN 1 ELSE s[i - (n - Len(s))]

\* torch's broadcasting rule: aligned dimensions are equal, or one of them is 1.
Broadcastable(a, b) ==
    \A i \in 1..Max(Len(a), Len(b)) :
        \/ Dim(a, Max(Len(a), Len(b)), i) = Dim(b, Max(Len(a), Len(b)), i)
        \/ Dim(a, Max(Len(a), Len(b)), i) = 1
        \/ Dim(b, Max(Len(a), Len(b)), i) = 1

BroadcastShape(a, b) ==
    [i \in 1..Max(Len(a), Len(b)) |->
        IF Dim(a, Max(Len(a), Len(b)), i) = 1
        THEN Dim(b, Max(Len(a), Len(b)), i)
        ELSE Dim(a, Max(Len(a), Len(b)), i)]

\* a + b on tensors
Add(a, b) ==
    IF Broadcastable(a, b) THEN Ok(BroadcastShape(a, b)) ELSE Raise("RuntimeError")

\* lhs[...] = rhs: the right side must expand to the shape of the left side.
ExpandsTo(rhs, lhs) ==
    /\ Len(rhs) <= Len(lhs)
    /\ Broadcastable(rhs, lhs)
    /\ BroadcastShape(rhs, lhs) = lhs

\* x.transpose(-2, -1)
TransposeLast(x) ==
    [i \in 1..Len(x) |-> IF i = Len(x) THEN x[Len(x) - 1]
                         ELSE IF i = Len(x) - 1 THEN x[Len(x)]
                         ELSE x[i]]

\* x.transpose(1, 2) (0-based dimensions 1 and 2)
Transpose12(x) ==
    [i \in 1..Len(x) |-> IF i = 2 THEN x[3] ELSE IF i = 3 THEN x[2] ELSE x[i]]

\* torch.matmul(a, b) on tensors of rank >= 2: the inner dimensions agree, the
\* leading (batch) dimensions broadcast.
Matmul(a, b) ==
    IF \/ a[Len(a)] # b[Len(b) - 1]
       \/ ~Broadcastable(SubSeq(a, 1, Len(a) - 2), SubSeq(b, 1, Len(b) - 2))
    THEN Raise("RuntimeError")
    ELSE Ok(BroadcastShape(SubSeq(a, 1, Len(a) - 2), SubSeq(b, 1, Len(b) - 2))
            \o <<a[Len(a) - 1], b[Len(b)]>>)

\* x.view(target) where target holds one -1 and the sizes known multiply to
\* known: the -1 dimension is inferred from the number of elements.
Inferred(x, known) ==
    IF known = 0 \/ Numel(x) % known # 0 THEN 0 ELSE Numel(x) \div known

\* x.view(b, -1, t3, t4)
View4(x, b, t3, t4) ==
    IF b * t3 * t4 = 0 \/ Numel(x) % (b * t3 * t4) # 0
    THEN Raise("RuntimeError")
    ELSE Ok(<<b, Inferred(x, b * t3 * t4), t3, t4>>)

\* x.view(b, -1, t3)
View3(x, b, t3) ==
    IF b * t3 = 0 \/ Numel(x) % (b * t3) # 0
    THEN Raise("RuntimeError")
    ELSE Ok(<<b, Inferred(x, b * t3), t3>>)

\* nn.Linear(in_features, out_features)(x)
Linear(in_features, out_features, x) ==
    IF x = <<>> \/ x[Len(x)] # in_features
    THEN Raise("RuntimeError")
    ELSE Ok([i \in 1..Len(x) |-> IF i = Len(x) THEN out_features ELSE x[i]])

\* nn.LayerNorm(d_model)(x)
LayerNorm(d_model, x) ==
    IF x = <<>> \/ x[Len(x)] # d_model THEN Raise("RuntimeError") ELSE Ok(x)

\* nn.Dropout(p)(x): elementwise, the shape is kept.
Dropout(x) == x

\* F.relu(x): elementwise, the shape is kept.
relu(x) == x

\* obj.attr on an nn.Module: an attribute that was never assigned raises.
HasAttr(obj, attr) == attr \in DOMAIN obj

----------------------------------------------------------------------------
(* The interpreter session the classes are defined in.  The class bodies   *)
(* read two module-level names the notebook never assigns, head_dim (in    *)
(* the assert of MultiHeadAttention.__init__) and dff (in                  *)
(* FeedForward.__init__); a name is unbound ({}) or bound ({v}).  optimize *)
(* is python -O / PYTHONOPTIMIZE, under which assert statements are not    *)
(* compiled.  NotebookSession is the session the notebook itself gives.    *)

NotebookSession == [optimize |-> FALSE, head_dim |-> {}, dff |-> {}]

Bound(name) == CHOOSE v \in name : TRUE

NoModule == [cls |-> "None"]
NoCall == [op |-> "none"]

\* What a constructor yields: the instance, or the exception it raised.
Constructed(obj) == [err |-> "ok", obj |-> obj]
Failed(e) == [err |-> e, obj |-> NoModule]

\* `x = r; body(x)` in a constructor
TryNew(r, body(_)) ==
    Bind(r, LAMBDA x : IF x.err # "ok" THEN Failed(x.err) ELSE body(x))

----------------------------------------------------------------------------
(* PositionalEncoding                                                      *)

DefaultMaxLen == 5000

CeilHalf(d) == (d + 1) \div 2
FloorHalf(d) == d \div 2

\* __init__(d_model, dropout, max_len): pe[:, 0::2] has ceil(d_model/2) columns
\* and pe[:, 1::2] floor(d_model/2); both are assigned a (max_len,
\* ceil(d_model/2)) table.
PositionalEncoding_init(d_model, max_len) ==
    IF /\ ExpandsTo(<<max_len, CeilHalf(d_model)>>, <<max_len, CeilHalf(d_model)>>)
       /\ ExpandsTo(<<max_len, CeilHalf(d_model)>>, <<max_len, FloorHalf(d_model)>>)
    THEN Constructed([cls |-> "PositionalEncoding",
                      pe |-> <<1, max_len, d_model>>])
    ELSE Failed("RuntimeError")

\* self.pe[:, :x.size(1)]: a slice is clipped to the size of the dimension.
PeSlice(obj, x) == <<obj.pe[1], Min(x[2], obj.pe[2]), obj.pe[3]>>

\* forward(x)
PositionalEncoding_forward(obj, x) ==
    Try(Add(x, PeSlice(obj, x)), LAMBDA sum :
    Ok(Dropout(sum.shape)))

----------------------------------------------------------------------------
(* MultiHeadAttention                                                      *)

\* `assert head_dim * num_heads == d_model` reads the module-level name head_dim.
AssertHeadDim(env, d_model, num_heads) ==
    IF env.optimize THEN Ok(<<>>)
    ELSE IF env.head_dim = {} THEN Raise("NameError")
    ELSE IF Bound(env.head_dim) * num_heads = d_model THEN Ok(<<>>)
    ELSE Raise("AssertionError")

\* __init__(d_model, num_heads) in session env
MultiHeadAttention_init(env, d_model, num_heads) ==
    TryNew(AssertHeadDim(env, d_model, num_heads), LAMBDA checked :
    Constructed([cls |-> "MultiHeadAttention",
                 d_model |-> d_model,
                 num_heads |-> num_heads,
                 head_dim |-> d_model \div num_heads,
                 W_q |-> <<d_model, d_model>>,
                 W_k |-> <<d_model, d_model>>,
                 W_v |-> <<d_model, d_model>>,
                 W_o |-> <<d_model, d_model>>]))

\* A mask argument: None, or a tensor with its shape and, for the observed
\* (batch, head) slice, its entries bits[row][column].
NoMask == [none |-> TRUE]
Mask(shape, bits) == [none |-> FALSE, shape |-> shape, bits |-> bits]

\* the fill value of masked_fill(mask == 0, -1e9)
FillValue == -1000000000

\* exp(d) for d <= 0 in units of 10^-4: float32 exp underflows to exactly 0 below
\* about -104; between the end of the table and the underflow it is positive and
\* at most one unit.
ExpUnderflow == 104
Unit == 10 ^ 4
ExpTable == <<10000, 3679, 1353, 498, 183, 67, 25, 9, 3, 1>>
Exp(d) ==
    IF d <= -ExpUnderflow THEN 0
    ELSE IF -d < Len(ExpTable) THEN ExpTable[1 - d]
    ELSE 1

RECURSIVE SeqMax(_)
SeqMax(s) == IF Len(s) = 1 THEN s[1] ELSE Max(Head(s), SeqMax(Tail(s)))

RECURSIVE SeqSum(_)
SeqSum(s) == IF s = <<>> THEN 0 ELSE Head(s) + SeqSum(Tail(s))

\* F.softmax(row, dim=-1), the probabilities in units of 10^-4
softmax(row) ==
    Bind(SeqMax(row), LAMBDA m :
    Bind([j \in 1..Len(row) |-> Exp(row[j] - m)], LAMBDA w :
    Bind(SeqSum(w), LAMBDA total :
    [j \in 1..Len(row) |-> (w[j] * Unit) \div total])))

\* attn_scores.masked_fill(mask == 0, -1e9): the shape.  The tensor and the mask
\* are broadcast against each other.
masked_fill(attn_scores, mask) ==
    IF Broadcastable(attn_scores, mask.shape)
    THEN Ok(BroadcastShape(attn_scores, mask.shape))
    ELSE Raise("RuntimeError")

\* The entry of a mask that broadcasting puts at (i, j).
MaskAt(mask, i, j) ==
    mask.bits[IF mask.shape[Len(mask.shape) - 1] = 1 THEN 1 ELSE i]
             [IF mask.shape[Len(mask.shape)] = 1 THEN 1 ELSE j]

\* The row after masked_fill(mask == 0, 0): the fill value forgotten.
FilledRowZero(raw, srow, mask, filled, qi) ==
    [j \in 1..filled[Len(filled)] |->
        IF MaskAt(mask, qi, j) = 0
        THEN 0
        ELSE srow[IF raw[Len(raw)] = 1 THEN 1 ELSE j]]

\* The row after masked_fill(mask == 1, -1e9): the mask inverted.
FilledRowInverted(raw, srow, mask, filled, qi) ==
    [j \in 1..filled[Len(filled)] |->
        IF MaskAt(mask, qi, j) = 1
        THEN FillValue
        ELSE srow[IF raw[Len(raw)] = 1 THEN 1 ELSE j]]

\* Row qi of attn_scores.masked_fill(mask == 0, -1e9): raw is the shape of the
\* scores before the fill, srow their row, filled the shape after the fill.
FilledRow(raw, srow, mask, filled, qi) ==
    [j \in 1..filled[Len(filled)] |->
        IF MaskAt(mask, qi, j) = 0
        THEN FillValue
        ELSE srow[IF raw[Len(raw)] = 1 THEN 1 ELSE j]]

\* What an attention call yields: the shape of its result, and of the observed
\* query row the scores after masking (filled) and the probabilities (probs);
\* split is the shape of the projected queries, raw the shape of attn_scores
\* before masking and scores after it.  A call that raises yields the exception
\* alone.
NoAttention(e) ==
    [err |-> e, shape |-> <<>>, split |-> <<>>, raw |-> <<>>, scores |-> <<>>,
     filled |-> <<>>, probs |-> <<>>]

TryAttention(r, body(_)) ==
    Bind(r, LAMBDA x : IF x.err # "ok" THEN NoAttention(x.err) ELSE body(x))

\* Whether srow is a row of scores of shape raw and qi a row of the scores after
\* masking.
IsRow(raw, attn_scores, qi, srow) ==
    /\ Len(srow) = raw[Len(raw)]
    /\ qi <= attn_scores[Len(attn_scores) - 1]

\* scaled_dot_product_attention(Q, K, V, mask): srow is row qi of
\* matmul(Q, K_t) / scale in the observed slice.
scaled_dot_product_attention(obj, Q, K, V, mask, qi, srow) ==
    TryAttention(Matmul(Q, TransposeLast(K)), LAMBDA raw :
    TryAttention(IF mask # NoMask THEN masked_fill(raw.shape, mask) ELSE raw,
                 LAMBDA attn_scores :
    Bind(IF ~IsRow(raw.shape, attn_scores.shape, qi, srow) THEN <<>>
         ELSE IF mask # NoMask
              THEN FilledRow(raw.shape, srow, mask, attn_scores.shape, qi)
              ELSE srow,
         LAMBDA row :
    Bind(IF row = <<>> THEN <<>> ELSE softmax(row), LAMBDA attn_probs :
    TryAttention(Matmul(attn_scores.shape, V), LAMBDA out :
    [err |-> "ok", shape |-> out.shape, split |-> Q, raw |-> raw.shape,
     scores |-> attn_scores.shape, filled |-> row, probs |-> attn_probs])))))

\* linear(x).view(batch_size, -1, num_heads, head_dim): the transpose forgotten.
ProjectNoTranspose(obj, x, linear) ==
    Try(Linear(linear[1], linear[2], x), LAMBDA y :
    View4(y.shape, x[1], obj.num_heads, obj.head_dim))

\* _project(x, linear): linear(x).view(batch_size, -1, num_heads,
\* head_dim).transpose(1, 2)
_project(obj, x, linear) ==
    Try(Linear(linear[1], linear[2], x), LAMBDA y :
    Try(View4(y.shape, x[1], obj.num_heads, obj.head_dim), LAMBDA v :
    Ok(Transpose12(v.shape))))

\* forward(x_k, x_q, x_v, mask): the parameters in the order of the source.
MultiHeadAttention_forward(obj, x_k, x_q, x_v, mask, qi, srow) ==
    TryAttention(_project(obj, x_q, obj.W_q), LAMBDA Q_proj :
    TryAttention(_project(obj, x_k, obj.W_k), LAMBDA K_proj :
    TryAttention(_project(obj, x_v, obj.W_v), LAMBDA V_proj :
    TryAttention(scaled_dot_product_attention(obj, Q_proj.shape, K_proj.shape,
                                              V_proj.shape, mask, qi, srow),
                 LAMBDA attn :
    TryAttention(View3(Transpose12(attn.shape), x_q[1], obj.d_model),
                 LAMBDA merged :
    TryAttention(Linear(obj.W_o[1], obj.W_o[2], merged.shape), LAMBDA out :
    [attn EXCEPT !.shape = out.shape]))))))

----------------------------------------------------------------------------
(* FeedForward                                                             *)

DefaultDff == 2048

\* nn.Linear(dff, d_model) reads the module-level name dff.
LinearDff(env, d_model) ==
    IF env.dff = {} THEN Raise("NameError") ELSE Ok(<<Bound(env.dff), d_model>>)

\* __init__(d_model, d_ff=2048)
FeedForward_init(env, d_model, d_ff) ==
    TryNew(LinearDff(env, d_model), LAMBDA linear2 :
    Constructed([cls |-> "FeedForward",
                 linear1 |-> <<d_model, d_ff>>,
                 linear2 |-> linear2.shape]))

\* forward(x)
FeedForward_forward(obj, x) ==
    Try(Linear(obj.linear1[1], obj.linear1[2], x), LAMBDA h :
    Bind(Dropout(relu(h.shape)), LAMBDA x_layer1 :
    Linear(obj.linear2[1], obj.linear2[2], x_layer1)))

----------------------------------------------------------------------------
(* EncoderLayer                                                            *)

\* __init__(d_model, num_heads)
EncoderLayer_init(env, d_model, num_heads) ==
    TryNew(MultiHeadAttention_init(env, d_model, num_heads), LAMBDA self_attn :
    TryNew(FeedForward_init(env, d_model, DefaultDff), LAMBDA ffn :
    Constructed([cls |-> "EncoderLayer",
                 self_attn |-> self_attn.obj,
                 ffn |-> ffn.obj,
                 norm1 |-> d_model,
                 norm2 |-> d_model,
                 dropout |-> "Dropout"])))

\* What a layer's forward yields: step is the last statement that ran (the one
\* that raised, when err is not "ok"), attn what the self-attention yielded and
\* cross what the cross-attention yielded.
Outcome(err, shape, step, attn, cross) ==
    [err |-> err, shape |-> shape, step |-> step, attn |-> attn, cross |-> cross]

NotRun == NoAttention("not run")

\* `x = r; body(x)` as statement step of a layer's forward
Step(r, step, attn, cross, body(_)) ==
    Bind(r, LAMBDA x : IF x.err # "ok"
                       THEN Outcome(x.err, <<>>, step, attn, cross)
                       ELSE body(x))

\* forward(x, mask=None)
EncoderLayer_forward(obj, x, mask, qi, srow) ==
    Bind(MultiHeadAttention_forward(obj.self_attn, x, x, x, NoMask, qi, srow),
         LAMBDA attn_output :
    Step(attn_output, "attn_output", attn_output, NotRun, LAMBDA a :
    Step(Add(x, Dropout(attn_output.shape)), "res1", attn_output, NotRun,
         LAMBDA res1 :
    Step(LayerNorm(obj.norm1, res1.shape), "norm_layer1", attn_output, NotRun,
         LAMBDA norm_layer1 :
    Step(FeedForward_forward(obj.ffn, norm_layer1.shape), "ffn_output",
         attn_output, NotRun, LAMBDA ffn_output :
    Step(Add(norm_layer1.shape, Dropout(ffn_output.shape)), "res2", attn_output,
         NotRun, LAMBDA res2 :
    Step(LayerNorm(obj.norm2, res2.shape), "return", attn_output, NotRun,
         LAMBDA out :
    Outcome("ok", out.shape, "return", attn_output, NotRun))))))))

----------------------------------------------------------------------------
(* DecoderLayer                                                            *)

\* __init__(d_model, num_heads)
DecoderLayer_init(env, d_model, num_heads) ==
    TryNew(MultiHeadAttention_init(env, d_model, num_heads), LAMBDA self_attn :
    TryNew(MultiHeadAttention_init(env, d_model, num_heads), LAMBDA cross_attn :
    TryNew(FeedForward_init(env, d_model, DefaultDff), LAMBDA ffn :
    Constructed([cls |-> "DecoderLayer",
                 self_attn |-> self_attn.obj,
                 cross_attn |-> cross_attn.obj,
                 ffn |-> ffn.obj,
                 norm1 |-> d_model,
                 norm2 |-> d_model,
                 norm3 |-> d_model,
                 dropout |-> "Dropout"]))))

\* self.Dropout(ffn_output)
SelfDropout(obj, x) ==
    IF HasAttr(obj, "Dropout") THEN Ok(Dropout(x)) ELSE Raise("AttributeError")

\* forward(x, encoder_output, self_mask, cross_mask); the row qi, srow is observed
\* in the self-attention.
DecoderLayer_forward(obj, x, encoder_output, self_mask, cross_mask, qi, srow) ==
    Bind(MultiHeadAttention_forward(obj.self_attn, x, x, x, self_mask, qi, srow),
         LAMBDA attn_output :
    Step(attn_output, "attn_output", attn_output, NotRun, LAMBDA a :
    Step(Add(x, Dropout(attn_output.shape)), "res1", attn_output, NotRun,
         LAMBDA res1 :
    Step(LayerNorm(obj.norm1, res1.shape), "norm_layer1", attn_output, NotRun,
         LAMBDA norm_layer1 :
    Bind(MultiHeadAttention_forward(obj.cross_attn, norm_layer1.shape,
                                    encoder_output, encoder_output, cross_mask,
                                    1, <<>>),
         LAMBDA cross_attn_output :
    Step(cross_attn_output, "cross_attn_output", attn_output, cross_attn_output,
         LAMBDA c :
    Step(Add(norm_layer1.shape, Dropout(cross_attn_output.shape)), "res2",
         attn_output, cross_attn_output, LAMBDA res2 :
    Step(LayerNorm(obj.norm2, res2.shape), "norm_layer2", attn_output,
         cross_attn_output, LAMBDA norm_layer2 :
    Step(FeedForward_forward(obj.ffn, norm_layer2.shape), "ffn_output",
         attn_output, cross_attn_output, LAMBDA ffn_output :
    Step(SelfDropout(obj, ffn_output.shape), "res3", attn_output,
         cross_attn_output, LAMBDA dropped :
    Step(Add(norm_layer2.shape, dropped.shape), "res3", attn_output,
         cross_attn_output, LAMBDA res3 :
    Step(LayerNorm(obj.norm3, res3.shape), "return", attn_output,
         cross_attn_output, LAMBDA out :
    Outcome("ok", out.shape, "return", attn_output, cross_attn_output)))))))))))))

----------------------------------------------------------------------------
(* Transformer                                                             *)

RECURSIVE FirstError(_)
FirstError(rs) ==
    IF rs = <<>> THEN Ok(<<>>)
    ELSE IF Head(rs).err # "ok" THEN Raise(Head(rs).err)
    ELSE FirstError(Tail(rs))

\* [Layer(d_model, num_heads) for _ in range(num_layers)]
ModuleList(layers) ==
    TryNew(FirstError(layers), LAMBDA none :
    Constructed([i \in 1..Len(layers) |-> layers[i].obj]))

\* __init__(source_vocab_size, target_vocab_size, d_model=512, num_heads=8,
\* num_layers=6)
Transformer_init(env, source_vocab_size, target_vocab_size, d_model, num_heads, num_layers) ==
    TryNew(PositionalEncoding_init(d_model, DefaultMaxLen),
           LAMBDA positional_encoding :
    TryNew(ModuleList([i \in 1..num_layers |->
                          EncoderLayer_init(env, d_model, num_heads)]),
           LAMBDA encoder_layers :
    TryNew(ModuleList([i \in 1..num_layers |->
                          DecoderLayer_init(env, d_model, num_heads)]),
           LAMBDA decoder_layers :
    Constructed([cls |-> "Transformer",
                 encoder_embedding |-> <<source_vocab_size, d_model>>,
                 decoder_embedding |-> <<target_vocab_size, d_model>>,
                 positional_encoding |-> positional_encoding.obj,
                 encoder_layers |-> encoder_layers.obj,
                 decoder_layers |-> decoder_layers.obj]))))

\* model(src_ids, tgt_ids): nn.Module.__call__ runs self.forward; the class
\* defines none, and the one it inherits from nn.Module raises
\* NotImplementedError.
Transformer_forward(obj, src_ids, tgt_ids) == Raise("NotImplementedError")

----------------------------------------------------------------------------
(* The arguments the calls are made with.                                  *)

\* The notebook's session, and those that run with -O or bind head_dim or dff.
Sessions ==
    {s \in [optimize : BOOLEAN, head_dim : {{}, {2}}, dff : {{}, {DefaultDff}}] :
        ~(s.optimize /\ s.head_dim # {})}

BitRows == UNION {[1..n -> {0, 1}] : n \in Lens}
Ones(n) == [j \in 1..n |-> 1]

\* torch.tril(torch.ones(n, n)): entry 0 exactly where the key is after the query
CausalBits(n) == [i \in 1..n |-> [j \in 1..n |-> IF j <= i THEN 1 ELSE 0]]
CausalMask(n) == Mask(<<1, 1, n, n>>, CausalBits(n))
PaddingMask(b, bits) == Mask(<<b, 1, 1, Len(bits)>>, <<bits>>)

\* A padding mask one key longer than any sequence the calls are made with.
TooLongMask == PaddingMask(1, Ones(MaxLen + 1))

Masks ==
    {NoMask, TooLongMask}
        \cup {CausalMask(n) : n \in Lens}
        \cup {Mask(<<n, n>>, CausalBits(n)) : n \in Lens}
        \cup {PaddingMask(b, bits) : b \in Batches, bits \in BitRows}

SelfMasks ==
    {NoMask, TooLongMask}
        \cup {CausalMask(n) : n \in Lens}
        \cup {Mask(<<n, n>>, CausalBits(n)) : n \in Lens}

CrossMasks == {NoMask} \cup {PaddingMask(1, Ones(n)) : n \in Lens}

EncoderMasks == SelfMasks \cup CrossMasks

\* The rows a call's attention can be observed at: a query row of the scores and
\* the scores of that row, when the attention is computed; none otherwise.
Rows(attn) ==
    IF attn.err = "ok"
    THEN {<<qi, srow>> : qi \in 1..attn.scores[Len(attn.scores) - 1],
                         srow \in [1..attn.raw[Len(attn.raw)] -> ScoreVals]}
    ELSE {<<1, <<>> >>}

----------------------------------------------------------------------------
(* The state machine: a module is constructed, then called.                *)

Init ==
    /\ self = NoModule
    /\ ret = NoCall

Fresh ==
    /\ self = NoModule
    /\ ret = NoCall

NewPositionalEncoding ==
    /\ Fresh
    /\ \E d_model \in DModels, max_len \in Lens \cup {MaxLen + 1, DefaultMaxLen} :
         \E r \in {PositionalEncoding_init(d_model, max_len)} :
            /\ self' = r.obj
            /\ ret' = [op |-> "PositionalEncoding.__init__", err |-> r.err,
                       d_model |-> d_model, max_len |-> max_len]

CallPositionalEncoding ==
    /\ self.cls = "PositionalEncoding"
    /\ ret.op = "PositionalEncoding.__init__"
    /\ \E b \in Batches, l \in 1..(MaxLen + 1), d \in DModels :
         \E x \in {<<b, l, d>>} :
         \E r \in {PositionalEncoding_forward(self, x)} :
            /\ ret' = [op |-> "PositionalEncoding.forward", err |-> r.err,
                       x |-> x, shape |-> r.shape]
            /\ UNCHANGED self

NewMultiHeadAttention ==
    /\ Fresh
    /\ \E env \in {s \in Sessions : s.dff = {}}, d_model \in DModels,
          num_heads \in Heads :
         \E r \in {MultiHeadAttention_init(env, d_model, num_heads)} :
            /\ self' = r.obj
            /\ ret' = [op |-> "MultiHeadAttention.__init__", err |-> r.err,
                       env |-> env, d_model |-> d_model, num_heads |-> num_heads]

CallMultiHeadAttention ==
    /\ self.cls = "MultiHeadAttention"
    /\ ret.op = "MultiHeadAttention.__init__"
    /\ \E b \in Batches, lk \in Lens, lq \in Lens, lv \in Lens, mask \in Masks :
         \E x_k \in {<<b, lk, self.d_model>>}, x_q \in {<<b, lq, self.d_model>>},
            x_v \in {<<b, lv, self.d_model>>} :
         \E row \in Rows(MultiHeadAttention_forward(self, x_k, x_q, x_v, mask,
                                                    1, <<>>)) :
         \E r \in {MultiHeadAttention_forward(self, x_k, x_q, x_v, mask,
                                              row[1], row[2])} :
            /\ ret' = [op |-> "MultiHeadAttention.forward", err |-> r.err,
                       x_k |-> x_k, x_q |-> x_q, x_v |-> x_v, mask |-> mask,
                       qi |-> row[1], srow |-> row[2], shape |-> r.shape,
                       attn |-> r]
            /\ UNCHANGED self

NewFeedForward ==
    /\ Fresh
    /\ \E env \in Sessions, d_model \in DModels,
          d_ff \in {DefaultDff, DefaultDff \div 2} :
         \E r \in {FeedForward_init(env, d_model, d_ff)} :
            /\ self' = r.obj
            /\ ret' = [op |-> "FeedForward.__init__", err |-> r.err,
                       env |-> env, d_model |-> d_model, d_ff |-> d_ff]

CallFeedForward ==
    /\ self.cls = "FeedForward"
    /\ ret.op = "FeedForward.__init__"
    /\ \E b \in Batches, l \in Lens, d \in DModels :
         \E x \in {<<b, l, d>>} :
         \E r \in {FeedForward_forward(self, x)} :
            /\ ret' = [op |-> "FeedForward.forward", err |-> r.err,
                       d_ff |-> ret.d_ff, x |-> x, shape |-> r.shape]
            /\ UNCHANGED self

NewEncoderLayer ==
    /\ Fresh
    /\ \E env \in Sessions, d_model \in LayerDModels, num_heads \in LayerHeads :
         \E r \in {EncoderLayer_init(env, d_model, num_heads)} :
            /\ self' = r.obj
            /\ ret' = [op |-> "EncoderLayer.__init__", err |-> r.err,
                       env |-> env, d_model |-> d_model, num_heads |-> num_heads]

CallEncoderLayer ==
    /\ self.cls = "EncoderLayer"
    /\ ret.op = "EncoderLayer.__init__"
    /\ \E b \in Batches, l \in Lens, mask \in EncoderMasks :
         \E x \in {<<b, l, self.norm1>>} :
         \E row \in Rows(EncoderLayer_forward(self, x, mask, 1, <<>>).attn) :
         \E r \in {EncoderLayer_forward(self, x, mask, row[1], row[2])} :
            /\ ret' = [op |-> "EncoderLayer.forward", err |-> r.err,
                       x |-> x, mask |-> mask, qi |-> row[1], srow |-> row[2],
                       shape |-> r.shape, step |-> r.step, attn |-> r.attn]
            /\ UNCHANGED self

NewDecoderLayer ==
    /\ Fresh
    /\ \E env \in Sessions, d_model \in LayerDModels, num_heads \in LayerHeads :
         \E r \in {DecoderLayer_init(env, d_model, num_heads)} :
            /\ self' = r.obj
            /\ ret' = [op |-> "DecoderLayer.__init__", err |-> r.err,
                       env |-> env, d_model |-> d_model, num_heads |-> num_heads]

CallDecoderLayer ==
    /\ self.cls = "DecoderLayer"
    /\ ret.op = "DecoderLayer.__init__"
    /\ \E b \in Batches, tgt_len \in Lens, src_len \in Lens,
          self_mask \in SelfMasks, cross_mask \in CrossMasks :
         \E x \in {<<b, tgt_len, self.norm1>>},
            encoder_output \in {<<b, src_len, self.norm1>>} :
         \E row \in Rows(DecoderLayer_forward(self, x, encoder_output, self_mask,
                                              cross_mask, 1, <<>>).attn) :
         \E r \in {DecoderLayer_forward(self, x, encoder_output, self_mask,
                                        cross_mask, row[1], row[2])} :
            /\ ret' = [op |-> "DecoderLayer.forward", err |-> r.err,
                       x |-> x, encoder_output |-> encoder_output,
                       self_mask |-> self_mask, cross_mask |-> cross_mask,
                       qi |-> row[1], srow |-> row[2], shape |-> r.shape,
                       step |-> r.step, attn |-> r.attn, cross |-> r.cross]
            /\ UNCHANGED self

NewTransformer ==
    /\ Fresh
    /\ \E env \in Sessions, source_vocab_size \in Vocabs, target_vocab_size \in Vocabs,
          d_model \in LayerDModels, num_heads \in LayerHeads,
          num_layers \in 0..MaxLayers :
         \E r \in {Transformer_init(env, source_vocab_size, target_vocab_size,
                                    d_model, num_heads, num_layers)} :
            /\ self' = r.obj
            /\ ret' = [op |-> "Transformer.__init__", err |-> r.err, env |-> env,
                       d_model |-> d_model, num_heads |-> num_heads,
                       num_layers |-> num_layers]

CallTransformer ==
    /\ self.cls = "Transformer"
    /\ ret.op = "Transformer.__init__"
    /\ \E b \in Batches, src_len \in Lens, tgt_len \in Lens :
         \E src_ids \in {<<b, src_len>>}, tgt_ids \in {<<b, tgt_len>>} :
         \E r \in {Transformer_forward(self, src_ids, tgt_ids)} :
            /\ ret' = [op |-> "Transformer.forward", err |-> r.err,
                       src_ids |-> src_ids, tgt_ids |-> tgt_ids,
                       d_model |-> ret.d_model, num_layers |-> ret.num_layers,
                       shape |-> r.shape]
            /\ UNCHANGED self

NextPositionalEncoding == NewPositionalEncoding \/ CallPositionalEncoding
NextAttention == NewMultiHeadAttention \/ CallMultiHeadAttention
NextFeedForward == NewFeedForward \/ CallFeedForward
NextLayers ==
    \/ NewEncoderLayer
    \/ CallEncoderLayer
    \/ NewDecoderLayer
    \/ CallDecoderLayer
NextTransformer == NewTransformer \/ CallTransformer

SpecPositionalEncoding == Init /\ [][NextPositionalEncoding]_vars
SpecAttention == Init /\ [][NextAttention]_vars
SpecFeedForward == Init /\ [][NextFeedForward]_vars
SpecLayers == Init /\ [][NextLayers]_vars
SpecTransformer == Init /\ [][NextTransformer]_vars

Next ==
    \/ NextPositionalEncoding
    \/ NextAttention
    \/ NextFeedForward
    \/ NextLayers
    \/ NextTransformer

Spec == Init /\ [][Next]_vars

----------------------------------------------------------------------------
(* The claims.                                                             *)

Called(op) == ret.op = op

\* The attention of the last call was computed and a row of it observed.
Observed(attn) == attn.err = "ok" /\ attn.probs # <<>>

\* A mask that expands to the shape of the scores it is applied to.
Fits(mask, scores) ==
    mask = NoMask \/ ExpandsTo(mask.shape, scores)

\* A causal mask for n positions: entry 0 exactly where key j is after query i.
IsCausal(mask, n) ==
    /\ mask # NoMask
    /\ mask.shape[Len(mask.shape) - 1] = n
    /\ mask.shape[Len(mask.shape)] = n
    /\ \A i \in 1..n, j \in 1..n : (mask.bits[i][j] = 0) <=> (j > i)

\* C1: in DecoderLayer.forward the cross-attention takes its queries from the
\* normalized decoder state and its keys and values from enc_out: for every
\* tgt_len and src_len its scores have shape (batch, heads, tgt_len, src_len) and
\* its output shape (batch, tgt_len, d_model), the shape of the decoder state.
C1_CrossAttentionShapes ==
    ( /\ Called("DecoderLayer.forward")
      /\ ret.step \notin {"attn_output", "res1", "norm_layer1"}
      /\ ret.cross_mask = NoMask )
    => /\ ret.cross.err = "ok"
       /\ ret.cross.scores = <<ret.x[1], self.cross_attn.num_heads,
                               ret.x[2], ret.encoder_output[2]>>
       /\ ret.cross.shape = ret.x

\* C2, as claimed: with a mask, every key position of the observed query row
\* whose mask entry is 0 gets probability 0, for every mask, the masks that are 0
\* at every key position of the row included.
C2_MaskedKeysGetZero ==
    ( /\ Called("MultiHeadAttention.forward")
      /\ ret.mask # NoMask
      /\ Observed(ret.attn) )
    => \A j \in 1..Len(ret.attn.probs) :
          MaskAt(ret.mask, ret.qi, j) = 0 => ret.attn.probs[j] = 0

\* C2, as amended: with a mask, in every query row that has at least one key
\* position whose mask entry is not 0, every key position whose mask entry is 0
\* gets probability 0, however far the score it had before masking exceeds
\* the scores of the other keys.
C2_MaskedKeysGetZeroUnlessAllMasked ==
    ( /\ Called("MultiHeadAttention.forward")
      /\ ret.mask # NoMask
      /\ Observed(ret.attn)
      /\ \E k \in 1..Len(ret.attn.probs) : MaskAt(ret.mask, ret.qi, k) # 0 )
    => \A j \in 1..Len(ret.attn.probs) :
          MaskAt(ret.mask, ret.qi, j) = 0 => ret.attn.probs[j] = 0

\* C2's case: a row with a masked key whose score before masking is the largest
\* of the row, and an unmasked key, which gets all the probability.
C2_Witness ==
    /\ Called("MultiHeadAttention.forward")
    /\ ret.mask # NoMask
    /\ Observed(ret.attn)
    /\ Len(ret.srow) = Len(ret.attn.probs)
    /\ \E j, k \in 1..Len(ret.attn.probs) :
          /\ MaskAt(ret.mask, ret.qi, j) = 0
          /\ ret.srow[j] = BigScore
          /\ ret.attn.filled[j] = FillValue
          /\ MaskAt(ret.mask, ret.qi, k) # 0
          /\ ret.srow[k] < BigScore
          /\ ret.attn.probs[k] = Unit

\* C3: when DecoderLayer.forward is called with a causal self_mask, the
\* self-attention gives probability 0 from the observed query position i to every
\* key position j > i.
C3_NoAttentionToTheFuture ==
    ( /\ Called("DecoderLayer.forward")
      /\ IsCausal(ret.self_mask, ret.x[2])
      /\ Observed(ret.attn) )
    => \A j \in 1..Len(ret.attn.probs) :
          j > ret.qi => ret.attn.probs[j] = 0

\* C3's case: a causal mask over more than one position, a query before the last
\* one, and a future key whose score before masking is the largest of the row.
C3_Witness ==
    /\ Called("DecoderLayer.forward")
    /\ IsCausal(ret.self_mask, ret.x[2])
    /\ Observed(ret.attn)
    /\ Len(ret.srow) = Len(ret.attn.probs)
    /\ \E j \in 1..Len(ret.attn.probs) :
          /\ j > ret.qi
          /\ ret.srow[j] = BigScore
          /\ ret.srow[ret.qi] < BigScore
          /\ ret.attn.probs[j] = 0
          /\ ret.attn.probs[ret.qi] > 0

\* C4: MultiHeadAttention(d_model, num_heads) in the notebook's session fails
\* when d_model % num_heads != 0, and succeeds with head_dim = d_model /
\* num_heads and four d_model-to-d_model projections when d_model % num_heads
\* = 0.
C4_DivisibilityCheckedAtConstruction ==
    ( /\ Called("MultiHeadAttention.__init__")
      /\ ret.env = NotebookSession )
    => IF ret.d_model % ret.num_heads # 0
       THEN ret.err = "AssertionError"
       ELSE /\ ret.err = "ok"
            /\ self.cls = "MultiHeadAttention"
            /\ self.head_dim * ret.num_heads = ret.d_model
            /\ \A w \in {self.W_q, self.W_k, self.W_v, self.W_o} :
                  w = <<ret.d_model, ret.d_model>>

\* C5: PositionalEncoding.forward on a hidden state of sequence length L returns
\* a tensor of the shape of x when L <= max_len, and fails when L > max_len, for
\* every max_len >= 1.
C5_ForwardFailsBeyondMaxLen ==
    ( /\ Called("PositionalEncoding.forward")
      /\ ret.x[3] = self.pe[3] )
    => IF ret.x[2] <= self.pe[2]
       THEN ret.err = "ok" /\ ret.shape = ret.x
       ELSE ret.err # "ok"

\* The shape of the scores of the self-attention of a layer of the given heads
\* on x.
SelfScores(x, num_heads) == <<x[1], num_heads, x[2], x[2]>>

\* C6: a supplied mask is never silently ignored: in MultiHeadAttention.forward,
\* EncoderLayer.forward and DecoderLayer.forward a mask that is not broadcastable
\* against the attention scores makes the call fail, and a call without a mask
\* does not fail for want of one.
C6_MaskNeverIgnored ==
    /\ ( /\ Called("MultiHeadAttention.forward")
         /\ ret.x_k = ret.x_q /\ ret.x_v = ret.x_q
         /\ self.head_dim * self.num_heads = self.d_model )
       => IF ret.mask = NoMask
          THEN ret.err = "ok"
          ELSE ~Broadcastable(ret.mask.shape, SelfScores(ret.x_q, self.num_heads))
                  => ret.err # "ok"
    /\ ( /\ Called("EncoderLayer.forward")
         /\ ret.mask # NoMask
         /\ ~Broadcastable(ret.mask.shape,
                           SelfScores(ret.x, self.self_attn.num_heads)) )
       => ret.err # "ok"
    /\ ( /\ Called("DecoderLayer.forward")
         /\ ret.self_mask # NoMask
         /\ ~Broadcastable(ret.self_mask.shape,
                           SelfScores(ret.x, self.self_attn.num_heads)) )
       => ret.err # "ok"

\* C7: for every batch size B, length L and num_heads dividing d_model,
\* MultiHeadAttention.forward as self-attention on an input of shape
\* (B, L, d_model), without a mask or with one that expands to the shape of the
\* scores, splits it into (B, num_heads, L, head_dim), attends with scores of
\* shape (B, num_heads, L, L) and returns a tensor of shape (B, L, d_model).
C7_SelfAttentionKeepsShape ==
    ( /\ Called("MultiHeadAttention.forward")
      /\ ret.x_k = ret.x_q /\ ret.x_v = ret.x_q
      /\ self.d_model % self.num_heads = 0
      /\ Fits(ret.mask, SelfScores(ret.x_q, self.num_heads)) )
    => /\ ret.err = "ok"
       /\ ret.attn.split = <<ret.x_q[1], self.num_heads, ret.x_q[2],
                             self.d_model \div self.num_heads>>
       /\ ret.attn.raw = SelfScores(ret.x_q, self.num_heads)
       /\ ret.shape = ret.x_q

\* C7's case: self-attention with a single head, head_dim = d_model, on a batch
\* of more than one sequence of more than one position.
C7_Witness ==
    /\ Called("MultiHeadAttention.forward")
    /\ ret.x_k = ret.x_q /\ ret.x_v = ret.x_q
    /\ self.num_heads = 1
    /\ self.head_dim = self.d_model
    /\ ret.x_q[1] > 1 /\ ret.x_q[2] > 1
    /\ ret.mask = NoMask
    /\ ret.err = "ok"
    /\ ret.shape = ret.x_q

\* C8: the Transformer's forward pass on (src_ids, tgt_ids) runs the encoder
\* layers, then the decoder layers, and returns dec_out of shape (batch,
\* tgt_len, d_model).
C8_ForwardReturnsDecoderOutput ==
    Called("Transformer.forward")
    => /\ ret.err = "ok"
       /\ ret.shape = <<ret.tgt_ids[1], ret.tgt_ids[2], ret.d_model>>

\* C9: for every input x of shape (B, L, d_model), EncoderLayer.forward and
\* DecoderLayer.forward (without masks, on an encoder output of the shape of x)
\* run all their steps without error and return a tensor of shape (B, L,
\* d_model).
C9_LayersRunToCompletion ==
    /\ Called("EncoderLayer.forward")
       => /\ ret.err = "ok"
          /\ ret.step = "return"
          /\ ret.shape = ret.x
    /\ ( /\ Called("DecoderLayer.forward")
         /\ ret.encoder_output = ret.x
         /\ ret.self_mask = NoMask
         /\ ret.cross_mask = NoMask )
       => /\ ret.err = "ok"
          /\ ret.step = "return"
          /\ ret.shape = ret.x

\* C10: FeedForward(d_model, d_ff) in the notebook's session succeeds for every
\* d_model and d_ff and creates the stages d_model-to-d_ff and d_ff-to-d_model;
\* forward maps every input of shape (B, L, d_model) to an output of that shape.
C10_FeedForwardUsesConfiguredDff ==
    /\ ( /\ Called("FeedForward.__init__")
         /\ ret.env = NotebookSession )
       => /\ ret.err = "ok"
          /\ self.cls = "FeedForward"
          /\ self.linear1 = <<ret.d_model, ret.d_ff>>
          /\ self.linear2 = <<ret.d_ff, ret.d_model>>
    /\ ( /\ Called("FeedForward.forward")
         /\ ret.x[3] = self.linear1[1] )
       => /\ ret.err = "ok"
          /\ ret.shape = ret.x

====
